---- MODULE Spec2Model ----
(***************************************************************************)
(* Model of the video content extraction pipeline:                         *)
(*   src/code/extraction/pipeline_controller.py  (VideoPipelineController) *)
(*   src/03_code/extraction/data_merger.py        (DataMerger)             *)
(*   src/03_code/extraction/ocr_processor.py      (OCRProcessor)           *)
(*   src/03_code/extraction/frame_extractor.py    (FrameExtractor)         *)
(*   src/03_code/extraction/utils.py              (ProgressTracker)        *)
(*   src/code/extraction/audio_transcriber.py     (AudioTranscriber)       *)
(*                                                                         *)
(* Texts and file names are tuples of one-character strings, so that the   *)
(* string functions of the code (split, lower, isdigit, SequenceMatcher)   *)
(* are computed and not assumed.  Python's None is the value None.         *)
(***************************************************************************)
EXTENDS Integers, Sequences, FiniteSets, TLC

VARIABLES
    \* --- calls of the pure functions
    extractions,      \* OCRProcessor: argument of _deduplicate_text_sequence (texts of the frames)
    unique_texts,     \* OCRProcessor: <<>> before the call, <<its list unique_texts>> on return
    merge_args,       \* DataMerger.create_video_record: the arguments of the call
    record,           \* DataMerger.create_video_record: <<>> before the call, <<the record>> on return
    audio,            \* AudioTranscriber.transcribe_video: the call in progress
    temp_files,       \* the temporary .wav files that exist in the temporary directory
    csv_text,         \* DataMerger._clean_text_for_csv: a text and what each application made of it
    ocr_data,         \* OCRProcessor.extract_text_from_image: the tokens pytesseract returned
    extracted,        \* OCRProcessor.extract_text_from_image: <<>> before the return, <<the result>> after
    session,          \* ProgressTracker on its own: the calls made so far and the errors recorded
    whisper,          \* AudioTranscriber.transcribe_audio: what the speech model returned for each audio
                      \* file, and what transcribe_audio made of it
    \* --- the disk
    videos_dir,       \* the stems of the valid *.mp4 files of videos_dir
    batch_size,       \* VideoPipelineController.batch_size
    num_workers,      \* VideoPipelineController.num_workers
    csv_exists,       \* video_content_analysis.csv exists
    csv_header,       \* its first line is the header
    csv_rows,         \* its rows, in file order
    summary_log,      \* processing_summary.json: the batch summaries that can be read from it
    progress_file,    \* progress.json: <<>> when absent, else <<snapshot>>
    frame_dirs,       \* the identifiers that have a scratch directory under frames/
    \* --- the running process (lost when it is killed)
    pc,               \* "idle": no process; "pool": in process_batch; "save": in save_batch_results
    caller,           \* "run_pipeline", or "api" when save_batch_results is called on its own
    remaining_files,  \* run_pipeline: remaining_files
    batch_num,        \* run_pipeline: batch_num
    tasks,            \* process_batch: one task per file of the batch, in submission order
    results,          \* process_batch: results
    save_i,           \* save_batch_results: position in results of the first loop
    progress,         \* ProgressTracker.progress: <<>> when None, else <<ProcessingProgress>>
    \* --- what is remembered of the runs, to state the properties
    submitted,        \* number of videos submitted to the pool so far, over all runs
    run,              \* facts about the table when the last run started
    ret               \* outcome of the last run: "none", "running", "True", "False", "killed"

text_vars == <<csv_text, ocr_data, extracted, whisper>>
fn_vars   == <<extractions, unique_texts, merge_args, record, audio, temp_files, text_vars, session>>
disk_vars == <<videos_dir, batch_size, num_workers, csv_exists, csv_header, csv_rows, summary_log, progress_file, frame_dirs>>
proc_vars == <<pc, caller, remaining_files, batch_num, tasks, results, save_i, progress>>
hist_vars == <<submitted, run, ret>>
vars == <<fn_vars, disk_vars, proc_vars, hist_vars>>

None == "None"

(***************************************************************************)
(* Bounds of the model                                                     *)
(***************************************************************************)
\* length of the texts in the two-frame inputs of the reconciler
MaxTextLen == 5
\* most frames in a frame sequence
MaxFrames == 3
\* largest batch_size and num_workers of the controller
MaxBatchSize == 2
MaxWorkers == 2
\* videos submitted to the worker pool in one behaviour, over all its runs
MaxSubmitted == 4

(***************************************************************************)
(* Small helpers over tuples                                               *)
(***************************************************************************)
Range(s) == {s[i] : i \in 1..Len(s)}

RECURSIVE SeqsUpTo(_, _)
\* all tuples over S of length 0..n
SeqsUpTo(S, n) ==
    IF n = 0 THEN {<<>>}
    ELSE LET shorter == SeqsUpTo(S, n - 1)
         IN  shorter \cup {Append(s, x) : s \in {t \in shorter : Len(t) = n - 1}, x \in S}

RECURSIVE Flatten(_)
\* the concatenation of the sequences of ss, by halves
Flatten(ss) ==
    IF ss = <<>> THEN <<>>
    ELSE IF Len(ss) = 1 THEN ss[1]
    ELSE LET mid == Len(ss) \div 2
         IN  Flatten(SubSeq(ss, 1, mid)) \o Flatten(SubSeq(ss, mid + 1, Len(ss)))

(***************************************************************************)
(* OCRProcessor._deduplicate_text_sequence and difflib.SequenceMatcher     *)
(***************************************************************************)
\* similarity_threshold = 0.8, in tenths
SimilarityThresholdTenths == 8

\* str.lower() on one character
LowerChar(c) == IF c = "A" THEN "a" ELSE IF c = "B" THEN "b" ELSE IF c = "I" THEN "i" ELSE c

lower(text) == [i \in 1..Len(text) |-> LowerChar(text[i])]

RECURSIVE RunLen(_, _, _, _, _, _)
\* length of the common run of a[i:ahi] and b[j:bhi] (0-based, half-open)
RunLen(a, b, i, j, ahi, bhi) ==
    IF i < ahi /\ j < bhi /\ a[i + 1] = b[j + 1]
    THEN 1 + RunLen(a, b, i + 1, j + 1, ahi, bhi)
    ELSE 0

\* SequenceMatcher.find_longest_match without junk: the longest matching
\* block of a[alo:ahi] and b[blo:bhi]; of the longest ones the one starting
\* earliest in a; of those the one starting earliest in b.
find_longest_match(a, b, alo, ahi, blo, bhi) ==
    LET starts == (alo..(ahi - 1)) \X (blo..(bhi - 1))
        size   == [p \in starts |-> RunLen(a, b, p[1], p[2], ahi, bhi)]
        cands  == {p \in starts : size[p] > 0}
    IN  IF cands = {} THEN [i |-> alo, j |-> blo, k |-> 0]
        ELSE LET longest == {p \in cands : \A q \in cands : size[q] <= size[p]}
                 firstA  == {p \in longest : \A q \in longest : p[1] <= q[1]}
                 best    == CHOOSE p \in firstA : \A q \in firstA : p[2] <= q[2]
             IN  [i |-> best[1], j |-> best[2], k |-> size[best]]

RECURSIVE matching_size(_, _, _, _, _, _)
\* SequenceMatcher.get_matching_blocks: total size of the matching blocks,
\* the longest block first, then the pieces left and right of it
matching_size(a, b, alo, ahi, blo, bhi) ==
    IF alo >= ahi \/ blo >= bhi THEN 0
    ELSE LET m == find_longest_match(a, b, alo, ahi, blo, bhi)
         IN  IF m.k = 0 THEN 0
             ELSE m.k + matching_size(a, b, alo, m.i, blo, m.j)
                      + matching_size(a, b, m.i + m.k, ahi, m.j + m.k, bhi)

\* SequenceMatcher(None, a, b).ratio() as the fraction num/den
\* (2.0 * matches / (len(a) + len(b)), and 1.0 for two empty strings)
ratio(a, b) ==
    IF Len(a) + Len(b) = 0 THEN [num |-> 1, den |-> 1]
    ELSE [num |-> 2 * matching_size(a, b, 0, Len(a), 0, Len(b)),
          den |-> Len(a) + Len(b)]

\* line 295-296: SequenceMatcher(None, text.lower(), existing_text.lower()).ratio()
\*               >= self.similarity_threshold
similarity_ge_mut(text, existing_text) ==
    LET r == ratio(lower(text), lower(existing_text))
    IN  10 * r.num > SimilarityThresholdTenths * r.den

similarity_ge(text, existing_text) ==
    LET r == ratio(lower(text), lower(existing_text))
    IN  10 * r.num >= SimilarityThresholdTenths * r.den

\* lines 293-298: the inner loop over unique_texts
is_duplicate_mut(text, uniq) ==
    uniq # <<>>

is_duplicate(text, uniq) ==
    \E k \in 1..Len(uniq) : similarity_ge(text, uniq[k])

RECURSIVE dedup_loop(_, _)
\* lines 287-301: the loop over the extractions, uniq is unique_texts so far
dedup_loop(exts, uniq) ==
    IF exts = <<>> THEN uniq
    ELSE LET text == Head(exts)
         IN  IF text = <<>> THEN dedup_loop(Tail(exts), uniq)
             ELSE IF is_duplicate(text, uniq) THEN dedup_loop(Tail(exts), uniq)
             ELSE dedup_loop(Tail(exts), Append(uniq, text))

\* the list unique_texts of _deduplicate_text_sequence (line 304 joins it)
deduplicate_text_sequence(exts) == dedup_loop(exts, <<>>)

\* line 304: '; '.join(unique_texts)
RECURSIVE join(_, _)
join(sep, texts) ==
    IF texts = <<>> THEN <<>>
    ELSE IF Len(texts) = 1 THEN texts[1]
    ELSE texts[1] \o sep \o join(sep, Tail(texts))

\* inputs of the reconciler: every pair of texts of MaxTextLen letters over two
\* letters, and every sequence of up to MaxFrames short texts: the empty text
\* of a frame without text, one letter in both cases, another letter, and two
\* texts of different lengths whose similarity is exactly the threshold
LongTexts  == {t \in SeqsUpTo({"a", "b"}, MaxTextLen) : Len(t) = MaxTextLen}
ShortTexts == {<<>>, <<"a">>, <<"A">>, <<"b">>, <<"a", "a">>, <<"a", "a", "a">>}
DedupInputs ==
    {<<x, y>> : x \in LongTexts, y \in LongTexts} \cup SeqsUpTo(ShortTexts, MaxFrames)


(***************************************************************************)
(* DataMerger: create_video_record, _clean_text_for_csv, validate_record   *)
(***************************************************************************)
\* dict.get(key, default)
Get(d, key, default) == IF key \in DOMAIN d THEN d[key] ELSE default

\* Python truth value of a message or a status (None and '' are false) and of
\* a text, an identifier or a file name ('' is false)
Truthy(v) == v # None /\ v # ""
TruthyText(t) == Len(t) > 0

\* max_length = 2000 of _clean_text_for_csv
max_length == 2000

WhitespaceChars == {" ", "\n", "\t"}

\* the least of a non-empty set of positions
first_of(S) == CHOOSE x \in S : \A y \in S : x <= y

RECURSIVE split_ws(_)
\* str.split(): the maximal runs of non-whitespace characters, word by word
split_ws(text) ==
    LET word_chars == {i \in 1..Len(text) : text[i] \notin WhitespaceChars}
    IN  IF word_chars = {} THEN <<>>
        ELSE LET first == first_of(word_chars)
                 blanks == {i \in first..Len(text) : text[i] \in WhitespaceChars}
                 stop == IF blanks = {} THEN Len(text) + 1 ELSE first_of(blanks)
             IN  <<SubSeq(text, first, stop - 1)>> \o split_ws(SubSeq(text, stop, Len(text)))

\* str.replace('"', '""')
escape_quotes(text) ==
    Flatten([i \in 1..Len(text) |-> IF text[i] = "\"" THEN <<"\"", "\"">> ELSE <<text[i]>>])

\* lines 129-143 as a bug would write them: the text over the cap gets its
\* ellipsis without being cut
clean_text_for_csv_mut(text) ==
    IF ~TruthyText(text) THEN <<>>
    ELSE LET cleaned == escape_quotes(join(<<" ">>, split_ws(text)))
         IN  IF Len(cleaned) > max_length
             THEN cleaned \o <<".", ".", ".">>
             ELSE cleaned

\* lines 129-143
clean_text_for_csv(text) ==
    IF ~TruthyText(text) THEN <<>>
    ELSE LET cleaned == escape_quotes(join(<<" ">>, split_ws(text)))
         IN  IF Len(cleaned) > max_length
             THEN SubSeq(cleaned, 1, max_length) \o <<".", ".", ".">>
             ELSE cleaned

\* lines 83-91, the chain as a bug would write it (a record with one failed
\* branch counted as failed)
processing_status_mut(ocr_results, transcription_results) ==
    LET ocr_success == Get(ocr_results, "error", None) = None
        transcription_success == Get(transcription_results, "error", None) = None
    IN  IF ocr_success /\ transcription_success THEN "success"
        ELSE IF ocr_success /\ ~transcription_success THEN "partial"
        ELSE "failed"

\* lines 83-91: the status of the record
processing_status(ocr_results, transcription_results) ==
    LET ocr_success == Get(ocr_results, "error", None) = None
        transcription_success == Get(transcription_results, "error", None) = None
    IN  IF ocr_success /\ transcription_success THEN "success"
        ELSE IF ocr_success \/ transcription_success THEN "partial"
        ELSE "failed"

\* lines 94-98 as a bug would write them: elif for the second note
error_notes_mut(ocr_results, transcription_results) ==
    IF Truthy(Get(ocr_results, "error", None))
    THEN << <<"OCR: ", ocr_results["error"]>> >>
    ELSE IF Truthy(Get(transcription_results, "error", None))
         THEN << <<"Audio: ", transcription_results["error"]>> >>
         ELSE <<>>

\* lines 94-98: the list of notes.  A note f"OCR: {msg}" is the sequence of
\* its two pieces, the prefix and the message.
error_notes(ocr_results, transcription_results) ==
    (IF Truthy(Get(ocr_results, "error", None))
     THEN << <<"OCR: ", ocr_results["error"]>> >> ELSE <<>>)
    \o
    (IF Truthy(Get(transcription_results, "error", None))
     THEN << <<"Audio: ", transcription_results["error"]>> >> ELSE <<>>)

\* lines 82-117.  error_notes is '; '.join(error_notes) (line 113), a string
\* written as the sequence of its pieces.  Confidences are in hundredths, so that round(x, 2) keeps
\* them; duration_seconds, text_timestamps, audio_timestamps, ocr_confidence
\* and processed_timestamp are not part of the model.
create_video_record(video_id, filename, video_metadata, ocr_results, transcription_results) ==
    [video_id |-> video_id,
     filename |-> filename,
     frame_count |-> Get(ocr_results, "total_frames_processed", 0),
     on_screen_text |-> clean_text_for_csv(Get(ocr_results, "deduplicated_text", <<>>)),
     spoken_phrases |-> clean_text_for_csv(Get(transcription_results, "text", <<>>)),
     transcription_confidence |-> Get(transcription_results, "confidence", 0),
     processing_status |-> processing_status(ocr_results, transcription_results),
     error_notes |-> join(<<"; ">>, error_notes(ocr_results, transcription_results))]

valid_statuses == {"success", "partial", "failed"}

\* lines 323-349: the list of errors, as a set.  Frame counts are integers in
\* every record of the model, so int() accepts them.
validate_record(rec) ==
    {<<"Missing required field", field>> :
        field \in {f \in {"video_id", "filename"} : f \notin DOMAIN rec \/ ~TruthyText(rec[f])}
               \cup {f \in {"processing_status"} : f \notin DOMAIN rec \/ ~Truthy(rec[f])}}
    \cup (IF "duration_seconds" \in DOMAIN rec /\ rec["duration_seconds"] \notin Int
          THEN {<<"Invalid duration_seconds">>} ELSE {})
    \cup (IF "frame_count" \in DOMAIN rec /\ rec["frame_count"] \notin Int
          THEN {<<"Invalid frame_count">>} ELSE {})
    \cup (IF Get(rec, "processing_status", None) \notin valid_statuses
          THEN {<<"Invalid processing_status">>} ELSE {})

is_valid(rec) == validate_record(rec) = {}


(***************************************************************************)
(* Video files and identifiers (VideoPipelineController)                   *)
(***************************************************************************)
DigitChars == {"0", "1", "2", "3", "4", "5", "6", "7", "8", "9"}

\* a video identifier of 16 digits
TikTokId == <<"7">> \o [i \in 1..14 |-> "0"] \o <<"1">>

\* The stems of the *.mp4 files a videos directory may hold: two downloads of
\* the same video under different search terms, a numbered clip, and a file
\* whose last part is a short number.
FileA == <<"a", "_">> \o TikTokId
FileB == <<"b", "_">> \o TikTokId
FileZ == <<"0", "0", "7">>
FileC == <<"c", "_", "1">>
Files == {FileA, FileB, FileZ, FileC}

\* Path(video_path).name
file_name(stem) == stem \o <<".", "m", "p", "4">>

RECURSIVE split(_, _, _)
\* str.split(sep): the parts between the separators; cur is the part being read
split(text, sep, cur) ==
    IF text = <<>> THEN <<cur>>
    ELSE IF Head(text) = sep THEN <<cur>> \o split(Tail(text), sep, <<>>)
    ELSE split(Tail(text), sep, Append(cur, Head(text)))

\* str.isdigit()
isdigit(text) == Len(text) > 0 /\ \A i \in 1..Len(text) : text[i] \in DigitChars

\* len(video_id) > 15 of extract_video_id
MinIdLen == 15

\* lines 132-145
extract_video_id(stem) ==
    LET parts == split(stem, "_", <<>>)
    IN  IF Len(parts) >= 2 /\ isdigit(parts[Len(parts)]) /\ Len(parts[Len(parts)]) > MinIdLen
        THEN parts[Len(parts)]
        ELSE stem

\* code points of the characters of the file names
Ord(c) == IF c \in DigitChars
          THEN 48 + (CHOOSE d \in 0..9 : <<"0","1","2","3","4","5","6","7","8","9">>[d + 1] = c)
          ELSE IF c = "_" THEN 95 ELSE IF c = "a" THEN 97 ELSE IF c = "b" THEN 98 ELSE 99

RECURSIVE str_less(_, _)
\* s < t on Python strings
str_less(s, t) ==
    IF t = <<>> THEN FALSE
    ELSE IF s = <<>> THEN TRUE
    ELSE IF Head(s) = Head(t) THEN str_less(Tail(s), Tail(t))
    ELSE Ord(Head(s)) < Ord(Head(t))

RECURSIVE sorted(_)
\* sorted(valid_files), line 120
sorted(S) ==
    IF S = {} THEN <<>>
    ELSE LET least == CHOOSE x \in S : \A y \in S \ {x} : str_less(x, y)
         IN  <<least>> \o sorted(S \ {least})

RECURSIVE create_batch_list(_, _)
create_batch_list_mut(video_files, size) ==
    IF video_files = <<>> THEN <<>>
    ELSE <<video_files>>
         \o (IF Len(video_files) <= size THEN <<>> ELSE <<SubSeq(video_files, size + 1, Len(video_files))>>)

\* utils.create_batch_list, lines 403-408
create_batch_list(video_files, size) ==
    IF video_files = <<>> THEN <<>>
    ELSE IF Len(video_files) <= size THEN <<video_files>>
    ELSE <<SubSeq(video_files, 1, size)>>
         \o create_batch_list(SubSeq(video_files, size + 1, Len(video_files)), size)

(***************************************************************************)
(* The output table on disk and what pandas reads back from it             *)
(***************************************************************************)
RECURSIVE strip_zeros(_)
\* str(int(digits)): the decimal digits without leading zeros
strip_zeros(digits) ==
    IF Len(digits) > 1 /\ Head(digits) = "0" THEN strip_zeros(Tail(digits)) ELSE digits

\* pd.read_csv(csv_path)['video_id'].astype(str): a column whose values all
\* parse as integers is read as int64 and printed back in decimal; any other
\* column keeps its strings, an empty field being read as NaN
column_as_str(ids) ==
    IF \A i \in 1..Len(ids) : isdigit(ids[i])
    THEN {strip_zeros(ids[i]) : i \in 1..Len(ids)}
    ELSE {IF ids[i] = <<>> THEN <<"n", "a", "n">> ELSE ids[i] : i \in 1..Len(ids)}

\* DataMerger.get_processed_video_ids over load_existing_csv (lines 279-311).
\* No file: an empty frame with the schema's columns.  An empty file: read_csv
\* raises, which load_existing_csv turns into the empty frame.  A file whose
\* first line is a row and not the header: that row becomes the column names,
\* 'video_id' is not one of them, and the result is the empty set.
get_processed_video_ids(exists, header, rows) ==
    IF ~exists THEN {}
    ELSE IF rows = <<>> THEN {}
    ELSE IF ~header THEN {}
    ELSE column_as_str([i \in 1..Len(rows) |-> rows[i].video_id])


(***************************************************************************)
(* ProgressTracker (utils.py)                                              *)
(***************************************************************************)
\* save_progress is called when completed + failed is a multiple of it
SaveInterval == 10

\* save_progress keeps the last MaxErrors errors (errors[-50:])
MaxErrors == 50

\* lines 117-122 (and ProcessingProgress.__post_init__: errors = []);
\* start_time and current_video are not part of the model
new_progress(total_videos) ==
    [total_videos |-> total_videos, completed_videos |-> 0, failed_videos |-> 0, errors |-> <<>>]

\* a progress.json that json.load cannot decode, or that lacks a key
Unreadable == [unreadable |-> TRUE]

\* lines 188-212: <<>> for None, else <<the progress read from the file>>
load_progress(file) ==
    IF file = <<>> \/ "total_videos" \notin DOMAIN file[1] THEN <<>> ELSE file

save_progress_mut(p) ==
    <<[p EXCEPT !.errors = SubSeq(@, 1, IF Len(@) > MaxErrors THEN MaxErrors ELSE Len(@))]>>

\* lines 159-186: the file after save_progress
save_progress(p) ==
    <<[p EXCEPT !.errors = SubSeq(@, IF Len(@) > MaxErrors THEN Len(@) - MaxErrors + 1 ELSE 1, Len(@))]>>

start_processing_mut(total_videos, resume, file) ==
    LET loaded == load_progress(file)
    IN  IF resume /\ file # <<>> /\ loaded # <<>>
        THEN <<loaded[1], file>>
        ELSE <<new_progress(total_videos), save_progress(new_progress(total_videos))>>

\* lines 110-126: the pair <<progress, progress_file>> after start_processing
start_processing(total_videos, resume, file) ==
    LET loaded == load_progress(file)
    IN  IF resume /\ file # <<>> /\ loaded # <<>> /\ loaded[1].total_videos = total_videos
        THEN <<loaded[1], file>>
        ELSE <<new_progress(total_videos), save_progress(new_progress(total_videos))>>

update_progress_mut(p, file, current_video, completed, failed, error_message) ==
    LET q == [p EXCEPT !.completed_videos = @ + (IF completed THEN 1 ELSE 0),
                       !.failed_videos = @ + (IF failed THEN 1 ELSE 0),
                       !.errors = IF failed /\ Truthy(error_message)
                                  THEN Append(@, <<current_video, error_message>>)
                                  ELSE @]
    IN  IF q.completed_videos % SaveInterval = 0
        THEN <<q, save_progress(q)>>
        ELSE <<q, file>>

\* lines 145-157: the pair <<progress, progress_file>> after update_progress.
\* The error f"{current_video}: {error_message}" is the pair of its parts.
update_progress(p, file, current_video, completed, failed, error_message) ==
    LET q == [p EXCEPT !.completed_videos = @ + (IF completed THEN 1 ELSE 0),
                       !.failed_videos = @ + (IF failed THEN 1 ELSE 0),
                       !.errors = IF failed /\ Truthy(error_message)
                                  THEN Append(@, <<current_video, error_message>>)
                                  ELSE @]
    IN  IF (q.completed_videos + q.failed_videos) % SaveInterval = 0
        THEN <<q, save_progress(q)>>
        ELSE <<q, file>>

(***************************************************************************)
(* process_single_video: one task of the worker pool                       *)
(***************************************************************************)
\* get_video_info of a readable video: 25.5 s, in hundredths
video_info == [duration |-> 2550]

\* AudioTranscriber._error_result as a bug would write it: the confidence of
\* a transcription
error_result_mut(error_msg) ==
    [text |-> <<>>, word_timestamps |-> <<>>, confidence |-> 60, error |-> error_msg]

\* AudioTranscriber._error_result, lines 144-153
error_result(error_msg) ==
    [text |-> <<>>, word_timestamps |-> <<>>, confidence |-> 0, error |-> error_msg]

\* AudioTranscriber.transcribe_audio, lines 122-131, confidence in hundredths
transcription(text) ==
    [text |-> text, word_timestamps |-> <<>>,
     confidence |-> IF TruthyText(text) THEN 60 ELSE 0, error |-> None]

\* OCRProcessor.process_frame_sequence, lines 265-273: no 'error' key
frame_sequence_result(text, total_frames) ==
    [deduplicated_text |-> text, total_frames_processed |-> total_frames]

new_task(stem) ==
    [file |-> stem, pc |-> "queued", video_metadata |-> <<>>, frames |-> 0,
     ocr_results |-> <<>>, result |-> <<>>, audio_attempted |-> FALSE, raised |-> FALSE]

\* lines 168-175: the early return when extract_frames gave no frame
no_frames_return(t, metadata) ==
    [t EXCEPT !.pc = "returned", !.video_metadata = metadata,
              !.result = [video_id |-> extract_video_id(t.file),
                          filename |-> file_name(t.file),
                          video_metadata |-> metadata,
                          ocr_results |-> [error |-> "Frame extraction failed"],
                          transcription_results |-> [error |-> "No frames to process"]]]

\* lines 189-196: the normal return
normal_return(t, transcription_results) ==
    [t EXCEPT !.pc = "returned",
              !.result = [video_id |-> extract_video_id(t.file),
                          filename |-> file_name(t.file),
                          video_metadata |-> t.video_metadata,
                          ocr_results |-> t.ocr_results,
                          transcription_results |-> transcription_results]]

\* the task without the handler of lines 198-215: the exception leaves it
exception_return_mut(t) ==
    [t EXCEPT !.pc = "raised", !.raised = TRUE]

\* lines 198-215: the handler of an exception of a stage
exception_return(t) ==
    [t EXCEPT !.pc = "returned", !.raised = TRUE,
              !.result = [video_id |-> extract_video_id(t.file),
                          filename |-> file_name(t.file),
                          video_metadata |-> <<>>,
                          ocr_results |-> [error |-> "Processing failed"],
                          transcription_results |-> [error |-> "Processing failed"]]]

\* lines 267-274: the result process_batch makes up for a future that raised
future_error_result(stem) ==
    [video_id |-> extract_video_id(stem),
     filename |-> file_name(stem),
     video_metadata |-> <<>>,
     ocr_results |-> [error |-> "Future error"],
     transcription_results |-> [error |-> "Future error"]]

Running(t) == t.pc \in {"ocr", "cleanup"}

\* Step 1, lines 163-175 over FrameExtractor.extract_frames (lines 117-183).
\* A task starts when a worker of the pool is free, in submission order.
ExtractFrames(i) ==
    /\ pc = "pool"
    /\ i \in 1..Len(tasks)
    /\ tasks[i].pc = "queued"
    /\ \A j \in 1..(i - 1) : tasks[j].pc # "queued"
    /\ Cardinality({j \in 1..Len(tasks) : Running(tasks[j])}) < num_workers
    /\ LET t == tasks[i]
           video_id == extract_video_id(t.file)
       IN  \E outcome \in {"probe_failed", "mkdir_raises", "decode_failed", "frames"} :
             CASE outcome = "probe_failed" ->
                    \* lines 119-126: no file or no metadata, before the directory is made
                    /\ tasks' = [tasks EXCEPT ![i] = no_frames_return(t, <<>>)]
                    /\ UNCHANGED frame_dirs
               [] outcome = "mkdir_raises" ->
                    \* line 130 is outside the try of extract_frames; the handler of
                    \* process_single_video calls cleanup_frames
                    /\ tasks' = [tasks EXCEPT ![i] = exception_return(t)]
                    /\ frame_dirs' = frame_dirs \ {video_id}
               [] outcome = "decode_failed" ->
                    \* lines 158-160 and 178-183: exit code, timeout, exception, or
                    \* a decode that wrote no frame
                    /\ tasks' = [tasks EXCEPT ![i] = no_frames_return(t, video_info)]
                    /\ frame_dirs' = frame_dirs \cup {video_id}
               [] outcome = "frames" ->
                    /\ tasks' = [tasks EXCEPT ![i] = [t EXCEPT !.pc = "ocr", !.frames = 1,
                                                               !.video_metadata = video_info]]
                    /\ frame_dirs' = frame_dirs \cup {video_id}
    /\ UNCHANGED <<fn_vars, videos_dir, batch_size, num_workers, csv_exists, csv_header, csv_rows, summary_log,
                   progress_file, pc, caller, remaining_files, batch_num, results, save_i,
                   progress, hist_vars>>

\* Steps 2 and 3, lines 177-184: OCR of the frames, then transcribe_video,
\* which returns a result on every path.  The frames are read from the scratch
\* directory; when it is gone no frame yields text.  An unexpected error of the
\* OCR stage ends the task in the handler, which calls cleanup_frames.
Recognize(i) ==
    /\ pc = "pool"
    /\ i \in 1..Len(tasks)
    /\ tasks[i].pc = "ocr"
    /\ LET t == tasks[i]
           video_id == extract_video_id(t.file)
           text == IF video_id \in frame_dirs THEN <<"a">> ELSE <<>>
           recognized == [t EXCEPT !.ocr_results = frame_sequence_result(text, t.frames)]
       IN  \E outcome \in {"raises", "transcribed", "audio_failed"} :
             CASE outcome = "raises" ->
                    /\ tasks' = [tasks EXCEPT ![i] = exception_return(t)]
                    /\ frame_dirs' = frame_dirs \ {video_id}
               [] outcome = "transcribed" ->
                    /\ tasks' = [tasks EXCEPT ![i] =
                                   [normal_return(recognized, transcription(<<"h", "i">>))
                                       EXCEPT !.pc = "cleanup", !.audio_attempted = TRUE]]
                    /\ UNCHANGED frame_dirs
               [] outcome = "audio_failed" ->
                    /\ tasks' = [tasks EXCEPT ![i] =
                                   [normal_return(recognized, error_result("Audio extraction failed"))
                                       EXCEPT !.pc = "cleanup", !.audio_attempted = TRUE]]
                    /\ UNCHANGED frame_dirs
    /\ UNCHANGED <<fn_vars, videos_dir, batch_size, num_workers, csv_exists, csv_header, csv_rows, summary_log,
                   progress_file, pc, caller, remaining_files, batch_num, results, save_i,
                   progress, hist_vars>>

\* Step 4, lines 186-196: cleanup_frames and the return
CleanupFrames(i) ==
    /\ pc = "pool"
    /\ i \in 1..Len(tasks)
    /\ tasks[i].pc = "cleanup"
    /\ tasks' = [tasks EXCEPT ![i].pc = "returned"]
    /\ frame_dirs' = frame_dirs \ {extract_video_id(tasks[i].file)}
    /\ UNCHANGED <<fn_vars, videos_dir, batch_size, num_workers, csv_exists, csv_header, csv_rows, summary_log,
                   progress_file, pc, caller, remaining_files, batch_num, results, save_i,
                   progress, hist_vars>>


(***************************************************************************)
(* process_batch: collecting the futures (main thread)                     *)
(***************************************************************************)
\* lines 246-247
has_error(result) ==
    /\ Truthy(Get(result.ocr_results, "error", None))
    /\ Truthy(Get(result.transcription_results, "error", None))

all_completed_mut(futures) == \E j \in 1..Len(futures) : futures[j].pc = "collected"

\* lines 229-276: as_completed has yielded every future of the batch, and the
\* with block of the executor is left
all_completed(futures) == \A j \in 1..Len(futures) : futures[j].pc = "collected"

\* lines 237-274 for one completed future.  print_progress (line 263) prints,
\* and reads the system statistics, only when completed + failed is a multiple
\* of SaveInterval; if that raises, the handler of line 265 adds a second
\* result for the video.
Collect(i) ==
    /\ pc = "pool"
    /\ i \in 1..Len(tasks)
    /\ tasks[i].pc \in {"returned", "raised"}
    /\ LET t == tasks[i]
           after == [tasks EXCEPT ![i] = [new_task(t.file) EXCEPT !.pc = "collected"]]
       IN  /\ tasks' = after
           /\ IF t.pc = "raised"
              THEN /\ results' = Append(results, future_error_result(t.file))
                   /\ UNCHANGED <<progress, progress_file>>
              ELSE LET up == update_progress(progress[1], progress_file, t.result.video_id,
                                             ~has_error(t.result), has_error(t.result),
                                             Get(t.result.ocr_results, "error", "Unknown error"))
                       processed == up[1].completed_videos + up[1].failed_videos
                   IN  /\ progress' = <<up[1]>>
                       /\ progress_file' = up[2]
                       /\ \E print_raises \in {FALSE} \cup {processed % SaveInterval = 0} :
                            results' = IF print_raises
                                       THEN results \o <<t.result, future_error_result(t.file)>>
                                       ELSE Append(results, t.result)
           /\ IF all_completed(after)
              THEN pc' = "save" /\ save_i' = 1
              ELSE UNCHANGED <<pc, save_i>>
    /\ UNCHANGED <<fn_vars, videos_dir, batch_size, num_workers, csv_exists, csv_header, csv_rows, summary_log,
                   frame_dirs, caller, remaining_files, batch_num, hist_vars>>

(***************************************************************************)
(* save_batch_results                                                      *)
(***************************************************************************)
record_of(result) ==
    create_video_record(result.video_id, result.filename, result.video_metadata,
                        result.ocr_results, result.transcription_results)

\* lines 290-305 for one result: the record is made, validated (an invalid one
\* is logged, lines 301-302) and handed to append_to_csv (lines 156-174), whose
\* return value is not looked at.  The file is opened for appending, which
\* creates it, and the header and the row reach it when it is closed: the
\* open may fail, and the write may fail after the open.
AppendRow ==
    /\ pc = "save"
    /\ save_i <= Len(results)
    /\ \E io \in {"ok", "open_fails", "write_fails"} :
         CASE io = "ok" ->
                /\ csv_exists' = TRUE
                /\ csv_header' = IF csv_exists THEN csv_header ELSE TRUE
                /\ csv_rows' = Append(csv_rows, record_of(results[save_i]))
           [] io = "open_fails" ->
                UNCHANGED <<csv_exists, csv_header, csv_rows>>
           [] io = "write_fails" ->
                /\ csv_exists' = TRUE
                /\ csv_header' = IF csv_exists THEN csv_header ELSE FALSE
                /\ UNCHANGED csv_rows
    /\ save_i' = save_i + 1
    /\ UNCHANGED <<fn_vars, videos_dir, batch_size, num_workers, summary_log, progress_file, frame_dirs, pc, caller,
                   remaining_files, batch_num, tasks, results, progress, hist_vars>>

\* DataMerger.create_batch_summary, lines 186-228: the counts
create_batch_summary(records) ==
    IF records = <<>> THEN <<>>
    ELSE [total_videos |-> Len(records),
          successful_processing |->
              Cardinality({k \in 1..Len(records) : records[k].processing_status = "success"}),
          partial_processing |->
              Cardinality({k \in 1..Len(records) : records[k].processing_status = "partial"}),
          failed_processing |->
              Cardinality({k \in 1..Len(records) : records[k].processing_status = "failed"})]

\* DataMerger.save_batch_summary, lines 241-267: the log after the call.  The
\* entries read from the file (none when there is no file or when it cannot
\* be decoded, lines 250-254) and the new one are written over the file,
\* opened with 'w' (lines 260-261): when the open fails the file is as it was,
\* and when the write fails after the open the file is left cut short, so
\* that no entry can be read from it any more.  The exception is caught and
\* False returned (lines 265-267).
save_batch_summary(log, summary, io) ==
    CASE io = "ok" -> Append(log, summary)
      [] io = "open_fails" -> log
      [] io = "write_fails" -> <<>>

first_task_batch(files) == [k \in 1..Len(files) |-> new_task(files[k])]

\* lines 307-323 of save_batch_results, which returns True, and run_pipeline
\* from there (lines 396-409): the next batch, or the final save_progress and
\* the return.  cleanup_temp_files (line 402) removes files older than a day
\* and leaves the directories.
SaveSummary ==
    /\ pc = "save"
    /\ save_i > Len(results)
    /\ LET records == [k \in 1..Len(results) |-> record_of(results[k])]
       IN  \E io \in {"ok", "open_fails", "write_fails"} :
             summary_log' = save_batch_summary(summary_log, create_batch_summary(records), io)
    /\ IF caller = "api"
       THEN /\ pc' = "idle"
            /\ ret' = "True"
            /\ results' = <<>>
            /\ save_i' = 1
            /\ UNCHANGED <<progress_file, batch_num, tasks, remaining_files, progress, run>>
       ELSE LET batches == create_batch_list(remaining_files, batch_size)
            IN  IF batch_num < Len(batches)
                THEN /\ batch_num' = batch_num + 1
                     /\ tasks' = first_task_batch(batches[batch_num + 1])
                     /\ results' = <<>>
                     /\ save_i' = 1
                     /\ pc' = "pool"
                     /\ run' = [run EXCEPT !.submissions = @ \o batches[batch_num + 1]]
                     /\ UNCHANGED <<progress_file, remaining_files, progress, ret>>
                ELSE /\ progress_file' = save_progress(progress[1])
                     /\ UNCHANGED run
                     /\ pc' = "idle"
                     /\ ret' = "True"
                     /\ remaining_files' = <<>>
                     /\ batch_num' = 0
                     /\ tasks' = <<>>
                     /\ results' = <<>>
                     /\ save_i' = 1
                     /\ progress' = <<>>
    /\ UNCHANGED <<fn_vars, videos_dir, batch_size, num_workers, csv_exists, csv_header, csv_rows, frame_dirs, caller,
                   submitted>>

(***************************************************************************)
(* run_pipeline                                                            *)
(***************************************************************************)
RECURSIVE select_remaining(_, _)
\* lines 362-366
select_remaining(video_files, processed_ids) ==
    IF video_files = <<>> THEN <<>>
    ELSE (IF extract_video_id(Head(video_files)) \notin processed_ids
          THEN <<Head(video_files)>> ELSE <<>>)
         \o select_remaining(Tail(video_files), processed_ids)

has_row(stem) == \E k \in 1..Len(csv_rows) : csv_rows[k].filename = file_name(stem)
id_has_row(stem) == \E k \in 1..Len(csv_rows) : csv_rows[k].video_id = extract_video_id(stem)

\* lines 340-382: a run of the pipeline up to the submission of its first batch
StartRun ==
    /\ pc = "idle"
    /\ \E resume \in {TRUE} :
         LET video_files == sorted(videos_dir)
             processed_ids == IF resume
                              THEN get_processed_video_ids(csv_exists, csv_header, csv_rows)
                              ELSE {}
             remaining == select_remaining(video_files, processed_ids)
             started == start_processing(Len(remaining), resume, progress_file)
         IN  /\ run' = [after_kill |-> ret = "killed",
                        all_had_rows |-> \A f \in videos_dir : id_has_row(f),
                        with_row |-> {f \in videos_dir : id_has_row(f)},
                        rows_at_start |-> Len(csv_rows),
                        selected |-> Range(remaining),
                        submissions |-> IF remaining = <<>> THEN <<>>
                                        ELSE create_batch_list(remaining, batch_size)[1]]
             /\ submitted + Len(remaining) <= MaxSubmitted
             /\ submitted' = submitted + Len(remaining)
             /\ IF video_files = <<>>
                THEN /\ ret' = "False"
                     /\ UNCHANGED <<proc_vars, progress_file>>
                ELSE IF remaining = <<>>
                THEN /\ ret' = "True"
                     /\ UNCHANGED <<proc_vars, progress_file>>
                ELSE /\ ret' = "running"
                     /\ pc' = "pool"
                     /\ caller' = "run_pipeline"
                     /\ remaining_files' = remaining
                     /\ batch_num' = 1
                     /\ tasks' = first_task_batch(create_batch_list(remaining, batch_size)[1])
                     /\ results' = <<>>
                     /\ save_i' = 1
                     /\ progress' = <<started[1]>>
                     /\ progress_file' = started[2]
    /\ UNCHANGED <<fn_vars, videos_dir, batch_size, num_workers, csv_exists, csv_header, csv_rows, summary_log, frame_dirs>>

\* The process is killed: what it holds in memory is lost, the disk stays.  A
\* kill inside append_to_csv, after the open and before the close, leaves the
\* file created and nothing written.
Kill ==
    /\ pc # "idle"
    /\ caller = "run_pipeline"
    /\ \E in_append \in {FALSE} \cup {pc = "save" /\ save_i <= Len(results)} :
         csv_exists' = (csv_exists \/ in_append)
    /\ pc' = "idle"
    /\ ret' = "killed"
    /\ remaining_files' = <<>>
    /\ batch_num' = 0
    /\ tasks' = <<>>
    /\ results' = <<>>
    /\ save_i' = 1
    /\ progress' = <<>>
    /\ UNCHANGED <<fn_vars, videos_dir, batch_size, num_workers, csv_header, csv_rows, summary_log, progress_file,
                   frame_dirs, caller, submitted, run>>

(***************************************************************************)
(* The pipeline: runs over a directory of videos, with kills between       *)
(***************************************************************************)
\* no call of AudioTranscriber.transcribe_video in progress, none made yet
\* (extraction: how extract_audio_from_video ended; transcribed: transcribe_audio
\* was called)
no_call == [pc |-> "idle", calls |-> 0, video_path |-> <<>>, audio_path |-> <<>>, extraction |-> "",
            transcribed |-> FALSE, result |-> <<>>]

AudioIdle == audio = no_call /\ temp_files = {}

\* no call of the tracker made yet (starts: calls of start_processing; updates:
\* calls of update_progress, in all, for a failed video, and since the last start; call: the
\* arguments of the last start_processing and the file it found; recorded:
\* the errors recorded by update_progress in the session and the sessions it
\* resumed, in order; restored: the errors the last start_processing read from
\* the file; recent: the errors recorded since the last start_processing)
no_session == [starts |-> 0, updates |-> 0, failures |-> 0, since_start |-> 0, call |-> <<>>, recorded |-> <<>>,
               restored |-> <<>>, recent |-> <<>>]

TrackerIdle == session = no_session

\* no text handed to _clean_text_for_csv, no image to extract_text_from_image
TextIdle == csv_text = <<>> /\ ocr_data = <<>> /\ extracted = <<>> /\ whisper = <<>>

FnIdle == extractions = <<>> /\ unique_texts = <<>> /\ merge_args = <<>> /\ record = <<>> /\ AudioIdle /\ TextIdle
          /\ TrackerIdle

ProcIdle ==
    /\ pc = "idle"
    /\ caller = "run_pipeline"
    /\ remaining_files = <<>>
    /\ batch_num = 0
    /\ tasks = <<>>
    /\ results = <<>>
    /\ save_i = 1
    /\ progress = <<>>

DiskEmpty ==
    /\ csv_exists = FALSE
    /\ csv_header = FALSE
    /\ csv_rows = <<>>
    /\ summary_log = <<>>
    /\ progress_file = <<>>
    /\ frame_dirs = {}

HistNone ==
    /\ submitted = 0
    /\ run = [after_kill |-> FALSE, all_had_rows |-> FALSE, with_row |-> {}, rows_at_start |-> 0, selected |-> {},
              submissions |-> <<>>]
    /\ ret = "none"

\* the directories of the model
VideoDirs == {{FileZ}, {FileA, FileB}, {FileZ, FileC}}

\* the controller processes the batch one video at a time (num_workers = 1,
\* the default of the constructor) or with a pool of workers
Init ==
    /\ FnIdle
    /\ videos_dir \in VideoDirs
    /\ \E sizes \in {<<1, 1>>, <<MaxBatchSize, MaxWorkers>>} :
         batch_size = sizes[1] /\ num_workers = sizes[2]
    /\ DiskEmpty
    /\ ProcIdle
    /\ HistNone

Next ==
    \/ StartRun
    \/ \E i \in 1..MaxBatchSize : ExtractFrames(i)
    \/ \E i \in 1..MaxBatchSize : Recognize(i)
    \/ \E i \in 1..MaxBatchSize : CleanupFrames(i)
    \/ \E i \in 1..MaxBatchSize : Collect(i)
    \/ AppendRow
    \/ SaveSummary
    \/ Kill

Spec == Init /\ [][Next]_vars

(***************************************************************************)
(* The cross-frame reconciler on its own: one call of                      *)
(* _deduplicate_text_sequence on the texts of a frame sequence             *)
(***************************************************************************)
NoDirectory ==
    /\ videos_dir = {}
    /\ batch_size = 1
    /\ num_workers = 1

InitDedup ==
    /\ extractions \in DedupInputs
    /\ unique_texts = <<>>
    /\ merge_args = <<>>
    /\ record = <<>>
    /\ AudioIdle
    /\ TrackerIdle
    /\ TextIdle
    /\ NoDirectory
    /\ DiskEmpty
    /\ ProcIdle
    /\ HistNone

\* lines 285-301: the call; unique_texts is set on return
Deduplicate ==
    /\ unique_texts = <<>>
    /\ unique_texts' = <<deduplicate_text_sequence(extractions)>>
    /\ UNCHANGED <<extractions, merge_args, record, audio, temp_files, text_vars, session, disk_vars, proc_vars, hist_vars>>

NextDedup == Deduplicate

SpecDedup == InitDedup /\ [][NextDedup]_vars

(***************************************************************************)
(* The record assembler on its own: one call of create_video_record        *)
(***************************************************************************)
\* the texts handed to the assembler: none, a word, words apart by more than
\* one blank, a text with a double quote
MergeTexts == {<<>>, <<"a">>, <<"a", " ", " ", "b">>, <<"\"", "a">>}

\* the messages of the stages
OcrErrors == {"Frame extraction failed", "Processing failed", "Future error"}
AudioErrors == {"No frames to process", "Processing failed", "Future error"}
TranscriberErrors == {"Audio extraction failed", "Transcription failed"}

\* what process_single_video and process_batch hand over as ocr_results and
\* as transcription_results
OcrResults ==
    {frame_sequence_result(text, n) : text \in MergeTexts, n \in 0..1}
    \cup {[error |-> m] : m \in OcrErrors}

TranscriptionResults ==
    {transcription(text) : text \in MergeTexts}
    \cup {error_result(m) : m \in TranscriberErrors}
    \cup {[error |-> m] : m \in AudioErrors}

InitMerge ==
    /\ extractions = <<>>
    /\ unique_texts = <<>>
    /\ \E o \in OcrResults, t \in TranscriptionResults :
         merge_args = [video_id |-> TikTokId, filename |-> file_name(FileA),
                       video_metadata |-> video_info,
                       ocr_results |-> o, transcription_results |-> t]
    /\ record = <<>>
    /\ AudioIdle
    /\ TrackerIdle
    /\ TextIdle
    /\ NoDirectory
    /\ DiskEmpty
    /\ ProcIdle
    /\ HistNone

\* lines 82-117: the call; record is set on return
CreateVideoRecord ==
    /\ record = <<>>
    /\ record' = <<create_video_record(merge_args.video_id, merge_args.filename,
                                       merge_args.video_metadata, merge_args.ocr_results,
                                       merge_args.transcription_results)>>
    /\ UNCHANGED <<extractions, unique_texts, merge_args, audio, temp_files, text_vars, session, disk_vars, proc_vars, hist_vars>>

NextMerge == CreateVideoRecord

SpecMerge == InitMerge /\ [][NextMerge]_vars

(***************************************************************************)
(* save_batch_results on its own: a call with a list of results            *)
(***************************************************************************)
\* results as a caller of save_batch_results may hand them over: the result of
\* a video whose branches both succeeded, of one that failed, and results
\* without an identifier or without a file name
SaveResults ==
    LET good == [video_id |-> TikTokId, filename |-> file_name(FileA),
                 video_metadata |-> video_info,
                 ocr_results |-> frame_sequence_result(<<"a">>, 1),
                 transcription_results |-> transcription(<<"h", "i">>)]
    IN  {good,
         future_error_result(FileC),
         [good EXCEPT !.video_id = <<>>],
         [good EXCEPT !.filename = <<>>]}

\* most results in one call of save_batch_results
MaxResults == 2

InitSave ==
    /\ FnIdle
    /\ NoDirectory
    /\ DiskEmpty
    /\ pc = "save"
    /\ caller = "api"
    /\ remaining_files = <<>>
    /\ batch_num = 0
    /\ tasks = <<>>
    /\ results \in SeqsUpTo(SaveResults, MaxResults) \ {<<>>}
    /\ save_i = 1
    /\ progress = <<>>
    /\ submitted = 0
    /\ run = [after_kill |-> FALSE, all_had_rows |-> FALSE, with_row |-> {}, rows_at_start |-> 0, selected |-> {},
              submissions |-> <<>>]
    /\ ret = "running"

NextSave ==
    \/ AppendRow
    \/ SaveSummary

SpecSave == InitSave /\ [][NextSave]_vars

(***************************************************************************)
(* process_batch on its own: one batch of videos through the worker pool   *)
(***************************************************************************)
\* the batches: up to MaxBatchSize files, in the order of find_video_files
Batches == {sorted(S) : S \in {T \in SUBSET Files : 1 <= Cardinality(T) /\ Cardinality(T) <= MaxBatchSize}}

\* the batch is the first of its run, or the last of a run whose earlier
\* batches completed SaveInterval - 1 videos (the tracker counts over the run)
EarlierVideos == {0, SaveInterval - 1}

InitBatch ==
    /\ FnIdle
    /\ csv_exists = FALSE
    /\ csv_header = FALSE
    /\ csv_rows = <<>>
    /\ summary_log = <<>>
    /\ frame_dirs = {}
    /\ \E batch \in Batches, workers \in {1, MaxWorkers}, earlier \in EarlierVideos :
         /\ videos_dir = Range(batch)
         /\ batch_size = Len(batch)
         /\ num_workers = workers
         /\ remaining_files = batch
         /\ tasks = first_task_batch(batch)
         /\ progress = <<[start_processing(earlier + Len(batch), TRUE, <<>>)[1]
                            EXCEPT !.completed_videos = earlier]>>
         /\ progress_file = start_processing(earlier + Len(batch), TRUE, <<>>)[2]
    /\ pc = "pool"
    /\ caller = "api"
    /\ batch_num = 1
    /\ results = <<>>
    /\ save_i = 1
    /\ HistNone

NextBatch ==
    \/ \E i \in 1..MaxBatchSize : ExtractFrames(i)
    \/ \E i \in 1..MaxBatchSize : Recognize(i)
    \/ \E i \in 1..MaxBatchSize : CleanupFrames(i)
    \/ \E i \in 1..MaxBatchSize : Collect(i)

SpecBatch == InitBatch /\ [][NextBatch]_vars

(***************************************************************************)
(* AudioTranscriber.transcribe_video on its own (SpecAudio): the calls one  *)
(* worker makes, one after the other.  code/extraction/audio_transcriber.py *)
(***************************************************************************)
MaxCalls == 2

SpokenTexts == {<<>>, <<"h", "i">>}

\* transcribe_video, lines 155-159: the call enters extract_audio_from_video
TranscribeVideo(video_path) ==
    /\ audio.pc \in {"idle", "returned"}
    /\ audio.calls < MaxCalls
    /\ audio' = [pc |-> "tempfile", calls |-> audio.calls + 1, video_path |-> <<video_path>>,
                 audio_path |-> <<>>, extraction |-> "", transcribed |-> FALSE, result |-> <<>>]
    /\ UNCHANGED <<extractions, unique_texts, merge_args, record, temp_files, text_vars,
                   session, disk_vars, proc_vars, hist_vars>>

\* extract_audio_from_video, lines 46-47: NamedTemporaryFile(delete=False)
\* makes a file of a fresh name; when it raises, lines 76-78 return None and
\* transcribe_video returns at line 162
NamedTemporaryFile ==
    /\ audio.pc = "tempfile"
    /\ \E outcome \in {"created", "raises"} :
         IF outcome = "created"
         THEN /\ temp_files' = temp_files \cup {audio.calls}
              /\ audio' = [audio EXCEPT !.pc = "ffmpeg", !.audio_path = <<audio.calls>>]
         ELSE /\ temp_files' = temp_files
              /\ audio' = [audio EXCEPT !.pc = "returned", !.extraction = "raises",
                                        !.result = <<error_result("Audio extraction failed")>>]
    /\ UNCHANGED <<extractions, unique_texts, merge_args, record, text_vars, session, disk_vars, proc_vars, hist_vars>>

\* extract_audio_from_video, lines 60-78: subprocess.run(cmd, capture_output,
\* text) has no timeout argument, so the call waits for ffmpeg for as long as
\* ffmpeg runs ("no_return": it never exits).  A non-zero exit and a file of
\* less than 1000 bytes remove the file and return None; an exception of
\* subprocess.run or of os.path.getsize is caught at line 76, which returns
\* None and leaves the file.  None makes transcribe_video return at line 162.
RunFfmpeg ==
    /\ audio.pc = "ffmpeg"
    /\ \E outcome \in {"extracted", "failed", "too_small", "raises", "no_return"} :
         CASE outcome = "extracted" ->
                /\ audio' = [audio EXCEPT !.pc = "transcribe", !.extraction = outcome]
                /\ temp_files' = temp_files
           [] outcome \in {"failed", "too_small"} ->
                /\ audio' = [audio EXCEPT !.pc = "returned", !.extraction = outcome,
                                          !.result = <<error_result("Audio extraction failed")>>]
                /\ temp_files' = temp_files \ {audio.audio_path[1]}
           [] outcome = "raises" ->
                /\ audio' = [audio EXCEPT !.pc = "returned", !.extraction = outcome,
                                          !.result = <<error_result("Audio extraction failed")>>]
                /\ temp_files' = temp_files
           [] outcome = "no_return" ->
                /\ audio' = [audio EXCEPT !.pc = "waiting", !.extraction = outcome]
                /\ temp_files' = temp_files
    /\ UNCHANGED <<extractions, unique_texts, merge_args, record, text_vars, session, disk_vars, proc_vars, hist_vars>>

\* transcribe_video, lines 165-174: transcribe_audio returns a transcription
\* or an error result and never raises; then the file is removed and the
\* result returned
TranscribeAudio ==
    /\ audio.pc = "transcribe"
    /\ \E result \in {transcription(text) : text \in SpokenTexts}
                     \cup {error_result("Transcription failed")} :
         audio' = [audio EXCEPT !.pc = "returned", !.transcribed = TRUE, !.result = <<result>>]
    /\ temp_files' = temp_files \ {audio.audio_path[1]}
    /\ UNCHANGED <<extractions, unique_texts, merge_args, record, text_vars, session, disk_vars, proc_vars, hist_vars>>

InitAudio ==
    /\ extractions = <<>>
    /\ unique_texts = <<>>
    /\ merge_args = <<>>
    /\ record = <<>>
    /\ AudioIdle
    /\ TrackerIdle
    /\ TextIdle
    /\ NoDirectory
    /\ DiskEmpty
    /\ ProcIdle
    /\ HistNone

NextAudio ==
    \/ \E video_path \in Files : TranscribeVideo(video_path)
    \/ NamedTemporaryFile
    \/ RunFfmpeg
    \/ TranscribeAudio

SpecAudio == InitAudio /\ [][NextAudio]_vars

\* the steps of a call are taken by the thread that made it: none of them is
\* postponed for ever once it can be taken
SpecAudioFair ==
    SpecAudio /\ WF_vars(NamedTemporaryFile) /\ WF_vars(RunFfmpeg) /\ WF_vars(TranscribeAudio)

(***************************************************************************)
(* DataMerger._clean_text_for_csv on its own (SpecClean): a text, and the   *)
(* function applied to it and then to its own output                       *)
(***************************************************************************)
MaxCleanLen == 4
MaxApplications == 2

\* a text of n letters
Letters(n) == [i \in 1..n |-> "a"]

\* the texts: every text of up to MaxCleanLen characters over a letter, a
\* blank and a double quote, and texts about the cap of max_length characters
CleanTexts ==
    SeqsUpTo({"a", " ", "\""}, MaxCleanLen)
    \cup {Letters(max_length), Letters(max_length + 1),
          Letters(max_length) \o <<" ", " ", "a">>,
          Letters(max_length - 1) \o <<"\"">>,
          <<"\"">> \o Letters(max_length)}

InitClean ==
    /\ extractions = <<>>
    /\ unique_texts = <<>>
    /\ merge_args = <<>>
    /\ record = <<>>
    /\ AudioIdle
    /\ TrackerIdle
    /\ \E text \in CleanTexts : csv_text = <<text>>
    /\ ocr_data = <<>>
    /\ extracted = <<>>
    /\ whisper = <<>>
    /\ NoDirectory
    /\ DiskEmpty
    /\ ProcIdle
    /\ HistNone

\* lines 119-143: the call, on the text made last
CleanTextForCsv ==
    /\ Len(csv_text) \in 1..MaxApplications
    /\ csv_text' = Append(csv_text, clean_text_for_csv(csv_text[Len(csv_text)]))
    /\ UNCHANGED <<extractions, unique_texts, merge_args, record, audio, temp_files, ocr_data, extracted, whisper,
                   session, disk_vars, proc_vars, hist_vars>>

NextClean == CleanTextForCsv

SpecClean == InitClean /\ [][NextClean]_vars

(***************************************************************************)
(* OCRProcessor.extract_text_from_image on its own (SpecOcr): the tokens   *)
(* pytesseract returned for one image, and the text made of them           *)
(***************************************************************************)
\* confidence_threshold = 30 of OCRProcessor.__init__
confidence_threshold == 30

MaxTokens == 2

\* str.strip(): the text without the whitespace at its ends
strip(text) ==
    LET word_chars == {i \in 1..Len(text) : text[i] \notin WhitespaceChars}
    IN  IF word_chars = {} THEN <<>>
        ELSE SubSeq(text, first_of(word_chars),
                    CHOOSE x \in word_chars : \A y \in word_chars : y <= x)

\* re.sub(r'\s+', ' ', text): every run of whitespace becomes one blank
collapse_ws(text) ==
    Flatten([i \in 1..Len(text) |->
                IF text[i] \notin WhitespaceChars THEN <<text[i]>>
                ELSE IF i > 1 /\ text[i - 1] \in WhitespaceChars THEN <<>>
                ELSE <<" ">>])

\* lines 223-226: the words _clean_text keeps
keeps_word(word) ==
    Len(word) >= 2 \/ lower(word) \in {<<"i">>, <<"a">>} \/ isdigit(word)

\* lines 203-228
clean_text(text) ==
    IF ~TruthyText(text) THEN <<>>
    ELSE LET cleaned == collapse_ws(strip(text))
             words == split_ws(cleaned)
         IN  join(<<" ">>, SelectSeq(words, keeps_word))

\* lines 159-163: the stripped text of the token, when it is taken as a valid
\* word, in a list of one; else the empty list
valid_word(token) ==
    IF token.conf > confidence_threshold
    THEN LET text == strip(token.text)
         IN  IF TruthyText(text) /\ Len(text) > 1 THEN <<text>> ELSE <<>>
    ELSE <<>>

\* lines 155-173: valid_words
valid_words(data) == Flatten([i \in 1..Len(data) |-> valid_word(data[i])])

\* lines 129-135, 146-152: the result of a failed preprocessing or OCR
ocr_error_result(error) == [text |-> <<>>, word_count |-> 0, raw_text |-> <<>>, error |-> error]

\* lines 154-191: the result made of the tokens
extract_text_from_image(data) ==
    LET extracted_text == join(<<" ">>, valid_words(data))
    IN  [text |-> clean_text(extracted_text),
         word_count |-> Len(valid_words(data)),
         raw_text |-> extracted_text,
         error |-> None]

\* what pytesseract reports for the boxes of an image: a word, single
\* characters (a letter that is a word, a capital that is a word, a digit,
\* another letter), a blank box; with the confidence of a box without text,
\* the threshold itself and a confidence above it
TokenTexts == {<<"h", "i">>, <<"a">>, <<"I">>, <<"7">>, <<"x">>, <<" ">>}
TokenConfidences == {-1, confidence_threshold, confidence_threshold + 1}
Tokens == {[text |-> t, conf |-> c] : t \in TokenTexts, c \in TokenConfidences}

InitOcr ==
    /\ extractions = <<>>
    /\ unique_texts = <<>>
    /\ merge_args = <<>>
    /\ record = <<>>
    /\ AudioIdle
    /\ TrackerIdle
    /\ csv_text = <<>>
    /\ ocr_data \in SeqsUpTo(Tokens, MaxTokens)
    /\ extracted = <<>>
    /\ whisper = <<>>
    /\ NoDirectory
    /\ DiskEmpty
    /\ ProcIdle
    /\ HistNone

\* lines 125-201: the call; preprocess_image may return None and
\* image_to_data may raise
ExtractTextFromImage ==
    /\ extracted = <<>>
    /\ \E outcome \in {"recognized", "preprocessing_failed", "ocr_failed"} :
         extracted' = <<CASE outcome = "recognized" -> extract_text_from_image(ocr_data)
                          [] outcome = "preprocessing_failed" -> ocr_error_result("Image preprocessing failed")
                          [] outcome = "ocr_failed" -> ocr_error_result("OCR failed")>>
    /\ UNCHANGED <<extractions, unique_texts, merge_args, record, audio, temp_files, csv_text, ocr_data, whisper,
                   session, disk_vars, proc_vars, hist_vars>>

NextOcr == ExtractTextFromImage

SpecOcr == InitOcr /\ [][NextOcr]_vars

(***************************************************************************)
(* AudioTranscriber.transcribe_audio on its own (SpecConfidence): two      *)
(* audio files, what the speech model returns for each, and the result     *)
(* transcribe_audio makes of it.  code/extraction/audio_transcriber.py     *)
(***************************************************************************)
MaxSegments == 2

\* avg_logprob of a segment, in tenths: -0.5, -4.0, -8.0
LogProbs == {-5, -40, -80}

\* what model.transcribe returns: the text and the avg_logprob of each segment.
\* A result without segments has no text; a result with segments may have an
\* empty text (segments of silence).
ModelResults ==
    {[text |-> t, segments |-> g] : t \in {<<>>, <<" ", "h", "i">>}, g \in SeqsUpTo(LogProbs, MaxSegments)}
    \ {[text |-> <<" ", "h", "i">>, segments |-> <<>>]}

\* lines 82-140: the result made of what the model returned (lines 98,
\* 122-131); the confidence is 0.6 if text else 0.0 and does not read the
\* segments.  When the model raises, the error result of line 136.
transcribe_audio(result, raises) ==
    IF raises THEN error_result("Transcription failed")
    ELSE transcription(strip(result.text))

InitConfidence ==
    /\ extractions = <<>>
    /\ unique_texts = <<>>
    /\ merge_args = <<>>
    /\ record = <<>>
    /\ AudioIdle
    /\ TrackerIdle
    /\ csv_text = <<>>
    /\ ocr_data = <<>>
    /\ extracted = <<>>
    /\ \E a \in ModelResults, b \in ModelResults :
         whisper = <<[result |-> a, returned |-> <<>>], [result |-> b, returned |-> <<>>]>>
    /\ NoDirectory
    /\ DiskEmpty
    /\ ProcIdle
    /\ HistNone

\* the call for one of the audio files
TranscribeAudioFile(k) ==
    /\ k \in 1..Len(whisper)
    /\ whisper[k].returned = <<>>
    /\ \E raises \in BOOLEAN :
         whisper' = [whisper EXCEPT ![k].returned = <<transcribe_audio(whisper[k].result, raises)>>]
    /\ UNCHANGED <<extractions, unique_texts, merge_args, record, audio, temp_files, csv_text, ocr_data, extracted,
                   session, disk_vars, proc_vars, hist_vars>>

NextConfidence == \E k \in 1..2 : TranscribeAudioFile(k)

SpecConfidence == InitConfidence /\ [][NextConfidence]_vars

(***************************************************************************)
(* A run of the pipeline and the runs that resume it when killed (SpecRun) *)
(***************************************************************************)
\* run_pipeline is called on an empty output directory, and again after a run
\* that was killed
RunOrResume == (submitted = 0 \/ ret = "killed") /\ StartRun

NextRun ==
    \/ RunOrResume
    \/ \E i \in 1..MaxBatchSize : ExtractFrames(i)
    \/ \E i \in 1..MaxBatchSize : Recognize(i)
    \/ \E i \in 1..MaxBatchSize : CleanupFrames(i)
    \/ \E i \in 1..MaxBatchSize : Collect(i)
    \/ AppendRow
    \/ SaveSummary
    \/ Kill

SpecRun == Init /\ [][NextRun]_vars

(***************************************************************************)
(* ProgressTracker on its own (SpecTracker): processes that start a        *)
(* session, update the progress once per video and end, one after another  *)
(***************************************************************************)
\* the processes that run one after another: a run and the run that follows it
Processes == {"run", "next run"}
MaxUpdates == 54
MaxCompleted == 1

\* total_videos of the sessions: a long run and a short one
Totals == {MaxUpdates, 2}

\* lines 99-126: a new process calls start_processing
StartProcessing(total_videos, resume) ==
    /\ progress = <<>>
    /\ session.starts < Cardinality(Processes)
    /\ LET started == start_processing(total_videos, resume, progress_file)
           loaded == load_progress(progress_file)
           restored == resume /\ loaded # <<>> /\ loaded[1].total_videos = total_videos
       IN  /\ progress' = <<started[1]>>
           /\ progress_file' = started[2]
           /\ session' = [session EXCEPT !.starts = @ + 1,
                                         !.since_start = 0,
                                         !.call = <<[total_videos |-> total_videos, resume |-> resume,
                                                     file |-> progress_file]>>,
                                         !.recorded = IF restored THEN @ ELSE <<>>,
                                         !.restored = IF restored THEN loaded[1].errors ELSE <<>>,
                                         !.recent = <<>>]
    /\ UNCHANGED <<extractions, unique_texts, merge_args, record, audio, temp_files, text_vars,
                   videos_dir, batch_size, num_workers, csv_exists, csv_header, csv_rows, summary_log, frame_dirs,
                   pc, caller, remaining_files, batch_num, tasks, results, save_i, hist_vars>>

\* lines 128-157: update_progress for the next video of the session, which
\* completed or failed
UpdateProgress(failed) ==
    /\ progress # <<>>
    /\ session.updates < MaxUpdates
    /\ session.since_start < session.call[1].total_videos
    /\ failed \/ progress[1].completed_videos < MaxCompleted
    /\ LET video == <<"v", session.failures + 1>>
           up == update_progress(progress[1], progress_file, video, ~failed, failed, "Frame extraction failed")
       IN  /\ progress' = <<up[1]>>
           /\ progress_file' = up[2]
           /\ session' = [session EXCEPT !.updates = @ + 1,
                                         !.since_start = @ + 1,
                                         !.failures = IF failed THEN @ + 1 ELSE @,
                                         !.recorded = IF failed
                                                      THEN Append(@, <<video, "Frame extraction failed">>)
                                                      ELSE @,
                                         !.recent = IF failed
                                                    THEN Append(@, <<video, "Frame extraction failed">>)
                                                    ELSE @]
    /\ UNCHANGED <<extractions, unique_texts, merge_args, record, audio, temp_files, text_vars,
                   videos_dir, batch_size, num_workers, csv_exists, csv_header, csv_rows, summary_log, frame_dirs,
                   pc, caller, remaining_files, batch_num, tasks, results, save_i, hist_vars>>

\* run_pipeline, lines 404-409: the final save_progress, and the process ends
FinishRun ==
    /\ progress # <<>>
    /\ progress_file' = save_progress(progress[1])
    /\ progress' = <<>>
    /\ UNCHANGED <<fn_vars, videos_dir, batch_size, num_workers, csv_exists, csv_header, csv_rows, summary_log,
                   frame_dirs, pc, caller, remaining_files, batch_num, tasks, results, save_i, hist_vars>>

\* the process ends without the final save (it is killed, or run_pipeline
\* returns False at lines 396-398 or 411-414): the tracker is lost
ExitProcess ==
    /\ progress # <<>>
    /\ progress' = <<>>
    /\ UNCHANGED <<fn_vars, disk_vars, pc, caller, remaining_files, batch_num, tasks, results, save_i, hist_vars>>

\* the tracker finds no progress.json, or one that cannot be read
InitTracker ==
    /\ FnIdle
    /\ NoDirectory
    /\ csv_exists = FALSE
    /\ csv_header = FALSE
    /\ csv_rows = <<>>
    /\ summary_log = <<>>
    /\ progress_file \in {<<>>, <<Unreadable>>}
    /\ frame_dirs = {}
    /\ ProcIdle
    /\ HistNone

NextTracker ==
    \/ \E total_videos \in Totals, resume \in BOOLEAN : StartProcessing(total_videos, resume)
    \/ \E failed \in BOOLEAN : UpdateProgress(failed)
    \/ FinishRun
    \/ ExitProcess

SpecTracker == InitTracker /\ [][NextTracker]_vars

(***************************************************************************)
(* Properties of the record assembler (SpecMerge)                          *)
(***************************************************************************)
\* a stage result reports an error: it has an 'error' that is not None
reports_error(stage_results) ==
    "error" \in DOMAIN stage_results /\ stage_results["error"] # None

\* C1: for every record produced by create_video_record, processing_status is
\* 'success' iff neither the OCR result nor the transcription result reports
\* an error, 'failed' iff both report an error, 'partial' iff exactly one
\* does, and it is never another value.
C1_StatusOfRecord ==
    record # <<>> =>
        LET status == record[1].processing_status
            ocr_error == reports_error(merge_args.ocr_results)
            audio_error == reports_error(merge_args.transcription_results)
        IN  /\ status \in {"success", "partial", "failed"}
            /\ (status = "success") <=> (~ocr_error /\ ~audio_error)
            /\ (status = "failed") <=> (ocr_error /\ audio_error)
            /\ (status = "partial") <=> (ocr_error # audio_error)

\* a record was made of a failed OCR stage and a good transcription
C1_Witness ==
    /\ record # <<>>
    /\ reports_error(merge_args.ocr_results)
    /\ ~reports_error(merge_args.transcription_results)
    /\ record[1].processing_status = "partial"

(***************************************************************************)
(* Properties of the cross-frame reconciler (SpecDedup)                    *)
(***************************************************************************)
\* the non-empty texts of the frames, by position
text_positions == {i \in 1..Len(extractions) : extractions[i] # <<>>}

\* the similarity of a text with an earlier one, measured as the ratio of
\* SequenceMatcher on the lower-cased texts, is at or above the threshold
at_threshold(later, earlier) ==
    LET r == ratio(lower(later), lower(earlier))
    IN  10 * r.num >= SimilarityThresholdTenths * r.den

\* the similarity of two texts is at or above the threshold, whichever of the
\* two is compared with the other
similar(s, t) == at_threshold(s, t) \/ at_threshold(t, s)

\* C9 as stated: no two surviving texts have similarity at or above the
\* threshold; of two frame texts with similarity >= threshold at most one is
\* in the output.
C9_NoSimilarSurvivors ==
    unique_texts # <<>> =>
        LET out == unique_texts[1]
        IN  \A i \in 1..Len(out), j \in 1..Len(out) :
                i # j => ~similar(out[i], out[j])

\* C9, amended: no surviving text has, compared as the reconciler compares it
\* (the later text against the earlier one, both in lower case), a similarity
\* at or above the threshold with a text that survived before it.
C9_NoSurvivorSimilarToEarlier ==
    unique_texts # <<>> =>
        LET out == unique_texts[1]
        IN  \A i \in 1..Len(out), j \in 1..Len(out) :
                i < j => ~at_threshold(out[j], out[i])

\* the reconciler dropped the second of two different texts whose similarity
\* is exactly the threshold
C9_Witness ==
    /\ Len(extractions) = 2
    /\ extractions[1] # extractions[2]
    /\ LET r == ratio(lower(extractions[2]), lower(extractions[1]))
       IN  10 * r.num = SimilarityThresholdTenths * r.den
    /\ unique_texts = << <<extractions[1]>> >>

\* C10 as stated: two non-empty frame texts with similarity below the
\* threshold both appear in the deduplicated stream, whatever the other texts.
C10_DissimilarBothSurvive ==
    unique_texts # <<>> =>
        \A i \in text_positions, j \in text_positions :
            ~similar(extractions[i], extractions[j]) =>
                /\ extractions[i] \in Range(unique_texts[1])
                /\ extractions[j] \in Range(unique_texts[1])

\* the text of frame i has a similarity below the threshold with the text of
\* every other frame
unlike_the_others(i) ==
    \A k \in text_positions \ {i} : ~similar(extractions[i], extractions[k])

\* C10, amended: a non-empty frame text is missing from the deduplicated
\* stream only if its similarity with a text that survived from an earlier
\* frame is at or above the threshold; so two texts with similarity below the
\* threshold to each other and to every other text of the sequence both appear.
C10_DroppedOnlyIfSimilarToEarlier ==
    unique_texts # <<>> =>
        LET out == unique_texts[1]
        IN  /\ \A i \in text_positions :
                 extractions[i] \notin Range(out) =>
                     \E j \in 1..(i - 1) :
                         /\ extractions[j] \in Range(out)
                         /\ at_threshold(extractions[i], extractions[j])
            /\ \A i \in text_positions :
                 unlike_the_others(i) => extractions[i] \in Range(out)

\* three frames, the second text a near-duplicate of the first and dropped,
\* the third unlike both and kept
C10_Witness ==
    /\ Len(extractions) = 3
    /\ unique_texts # <<>>
    /\ Len(unique_texts[1]) = 2
    /\ extractions[1] # <<>> /\ extractions[2] # <<>> /\ extractions[3] # <<>>
    /\ at_threshold(extractions[2], extractions[1])
    /\ ~similar(extractions[3], extractions[1])
    /\ ~similar(extractions[3], extractions[2])
    /\ unique_texts[1] = <<extractions[1], extractions[3]>>

(***************************************************************************)
(* Properties of the runs of the pipeline (Spec)                           *)
(***************************************************************************)
\* C2: after any sequence of runs with resume enabled, over any set of input
\* files, the output table never holds two rows with the same video_id.
C2_NoTwoRowsOfOneId ==
    \A i \in 1..Len(csv_rows), j \in 1..Len(csv_rows) :
        i # j => csv_rows[i].video_id # csv_rows[j].video_id

\* C3: if the identifier of every input file has a row in the output table
\* when run_pipeline starts with resume enabled, the run processes no video,
\* appends no row, leaves the record count unchanged and returns success.
C3_ResumeOverProcessedDirectory ==
    (ret # "none" /\ run.all_had_rows) =>
        /\ pc = "idle"
        /\ ret = "True"
        /\ run.selected = {}
        /\ Len(csv_rows) = run.rows_at_start

\* C4: when run_pipeline has returned success, every input file selected for
\* processing in that run has a row in the output table, whatever its outcome.
C4_RowForEverySelectedFile ==
    (pc = "idle" /\ ret = "True") => \A f \in run.selected : has_row(f)

\* C8: when the process was killed during a run and the pipeline is run again
\* with resume enabled, the rows written so far are kept, no video with a row
\* is processed again, and when the run completes every input file has a row.
C8_ResumeAfterKill ==
    (ret # "none" /\ run.after_kill) =>
        /\ Len(csv_rows) >= run.rows_at_start
        /\ run.selected \cap run.with_row = {}
        /\ (pc = "idle" /\ ret = "True") => \A f \in videos_dir : has_row(f)

(***************************************************************************)
(* Properties of save_batch_results (SpecSave)                             *)
(***************************************************************************)
\* C6: a record for which validate_record reports errors is never appended to
\* the output table: every row of the table passes validation.
C6_OnlyValidRecordsInTable ==
    \A k \in 1..Len(csv_rows) : is_valid(csv_rows[k])

(***************************************************************************)
(* Properties of the tasks of a batch (SpecBatch)                          *)
(***************************************************************************)
\* the task got no frame from extract_frames and has returned
zero_frames_return(t) == t.pc = "returned" /\ ~t.raised /\ t.frames = 0

\* C5: a task whose frame extraction returned zero frames still attempts the
\* audio transcription, and its record has empty on_screen_text, frame_count 0
\* and the status 'partial' if the audio branch succeeded, 'failed' if not.
C5_AudioAttemptedWithoutFrames ==
    \A i \in 1..Len(tasks) :
        zero_frames_return(tasks[i]) =>
            LET rec == record_of(tasks[i].result)
            IN  /\ tasks[i].audio_attempted
                /\ rec.on_screen_text = <<>>
                /\ rec.frame_count = 0
                /\ rec.processing_status \in {"partial", "failed"}

\* C7: an exception raised by a stage of one video never leaves its task:
\* process_single_video returns a result with both error fields set, which
\* merges to a 'failed' record, and when the batch has been collected every
\* video of the batch has its own result.
C7_ExceptionStaysInTask ==
    /\ \A i \in 1..Len(tasks) :
         /\ tasks[i].pc # "raised"
         /\ (tasks[i].pc = "returned" /\ tasks[i].raised) =>
                /\ Truthy(Get(tasks[i].result.ocr_results, "error", None))
                /\ Truthy(Get(tasks[i].result.transcription_results, "error", None))
                /\ record_of(tasks[i].result).processing_status = "failed"
    /\ pc = "save" =>
         \A i \in 1..Len(tasks) :
             \E k \in 1..Len(results) :
                 results[k].filename = file_name(tasks[i].file)

\* a batch of two videos was collected: one raised in a stage and has its
\* result with both errors, the other has a result without an error
C7_Witness ==
    /\ pc = "save"
    /\ Len(results) = 2
    /\ \E k \in 1..2 :
         /\ Get(results[k].ocr_results, "error", None) = "Processing failed"
         /\ Get(results[k].transcription_results, "error", None) = "Processing failed"
         /\ record_of(results[3 - k]).processing_status = "success"

\* C11: no two tasks that run at the same time use the same scratch frame
\* directory, whatever the files of the batch.
C11_NoSharedScratchDirectory ==
    \A i \in 1..Len(tasks), j \in 1..Len(tasks) :
        (i # j /\ Running(tasks[i]) /\ Running(tasks[j])) =>
            extract_video_id(tasks[i].file) # extract_video_id(tasks[j].file)

(***************************************************************************)
(* More properties of the runs of the pipeline (Spec)                      *)
(***************************************************************************)
\* C12: every scratch frame directory made for a video is removed by its task
\* on every path of the task: when a run has finished, no scratch directory
\* is left under frames/.
C12_NoScratchDirectoryAfterRun ==
    (pc = "idle" /\ ret = "True") => frame_dirs = {}

(***************************************************************************)
(* Properties of the transcriber (SpecAudio, SpecAudioFair)                *)
(***************************************************************************)
\* C13: after transcribe_video returns, the temporary audio file the call
\* created no longer exists, on every path of the call.
C13_TempAudioRemovedOnReturn ==
    (audio.pc = "returned" /\ audio.audio_path # <<>>) =>
        audio.audio_path[1] \notin temp_files

\* C14: a call of the audio extraction always comes to an end with a result,
\* even when the external process never returns on its own.
C14_ExtractionAlwaysReturns ==
    (audio.pc = "ffmpeg") ~> (audio.pc = "returned" /\ audio.result # <<>>)

(***************************************************************************)
(* Properties of the collection of a batch (SpecBatch)                     *)
(***************************************************************************)
\* C15: whatever the order in which the tasks of a batch complete, when the
\* batch of n videos has been collected the tracker has counted exactly n more
\* videos (completed + failed) and the batch hands exactly n results to the
\* save.
C15_NoLostUpdateAndOneResultPerVideo ==
    pc = "save" =>
        /\ progress[1].completed_videos + progress[1].failed_videos = progress[1].total_videos
        /\ Len(results) = Len(tasks)

(***************************************************************************)
(* More properties of save_batch_results (SpecSave)                        *)
(***************************************************************************)
\* C16: a failed write of a row or of the batch summary is not ignored: when
\* save_batch_results, called over an empty output directory, returns True,
\* every result it was given has its row in the table and the summary of the
\* batch is in the log.
C16_WriteFailureSurfaced ==
    [][(pc = "save" /\ pc' = "idle" /\ ret' = "True") =>
           (Len(csv_rows') = Len(results) /\ Len(summary_log') = 1)]_vars

\* C17: the batch-summary log only grows: no step of the pipeline removes or
\* changes an entry that is in the log, and a step that changes the log adds
\* one entry after the existing ones.
C17_SummaryLogOnlyGrows ==
    [][\/ summary_log' = summary_log
       \/ /\ Len(summary_log') = Len(summary_log) + 1
          /\ SubSeq(summary_log', 1, Len(summary_log)) = summary_log]_vars

(***************************************************************************)
(* Properties of the text sanitization (SpecClean)                         *)
(***************************************************************************)
has_quote(text) == \E i \in 1..Len(text) : text[i] = "\""

\* C18 as stated: the sanitization is stable under repetition for every text:
\* applied to its own output it returns that output unchanged.
C18_SanitizationIdempotent ==
    Len(csv_text) >= 3 => csv_text[3] = csv_text[2]

\* C18, amended: the sanitization applied to its own output returns that
\* output unchanged whenever the output holds no double quote; this covers the
\* whitespace collapse and the cut at max_length characters with its ellipsis.
C18_IdempotentWithoutQuotes ==
    (Len(csv_text) >= 3 /\ ~has_quote(csv_text[2])) => csv_text[3] = csv_text[2]

\* a text longer than the cap was cut and marked, and the second application
\* left the cut text as it was
C18_Witness ==
    /\ Len(csv_text) = 3
    /\ Len(csv_text[1]) > max_length
    /\ ~has_quote(csv_text[2])
    /\ Len(csv_text[2]) = max_length + 3
    /\ csv_text[3] = csv_text[2]

(***************************************************************************)
(* More properties of the record assembler (SpecMerge)                     *)
(***************************************************************************)
\* C19: error_notes of a record holds 'OCR: <msg>' iff the OCR result reports
\* an error and 'Audio: <msg>' iff the transcription result reports an error,
\* joined by '; ' in that order; hence error_notes is empty iff
\* processing_status is 'success'.
C19_ErrorNotesOfRecord ==
    record # <<>> =>
        LET notes == record[1].error_notes
            ocr_error == reports_error(merge_args.ocr_results)
            audio_error == reports_error(merge_args.transcription_results)
            ocr_note == <<"OCR: ", merge_args.ocr_results["error"]>>
            audio_note == <<"Audio: ", merge_args.transcription_results["error"]>>
        IN  /\ (ocr_error /\ audio_error) => notes = ocr_note \o <<"; ">> \o audio_note
            /\ (ocr_error /\ ~audio_error) => notes = ocr_note
            /\ (~ocr_error /\ audio_error) => notes = audio_note
            /\ (~ocr_error /\ ~audio_error) => notes = <<>>
            /\ (notes = <<>>) <=> (record[1].processing_status = "success")

\* a record was made of two failed stages: its notes are the OCR note, the
\* separator and the audio note
C19_Witness ==
    /\ record # <<>>
    /\ reports_error(merge_args.ocr_results)
    /\ reports_error(merge_args.transcription_results)
    /\ Len(record[1].error_notes) = 5
    /\ record[1].error_notes[3] = "; "
    /\ record[1].processing_status = "failed"

(***************************************************************************)
(* Properties of the token filter (SpecOcr)                                *)
(***************************************************************************)
\* the token passes the filter as it is described: its confidence is not
\* below the threshold, and its text has at least 2 characters or is a digit
\* or the single-letter word 'I' or 'a'
survives(token) ==
    /\ token.conf >= confidence_threshold
    /\ LET text == strip(token.text)
       IN  Len(text) >= 2 \/ isdigit(text) \/ text \in {<<"I">>, <<"a">>}

\* C20: the text extracted from an image is made of exactly the tokens that
\* pass the filter, in their order: a token survives iff its confidence is not
\* below the threshold and it has at least 2 characters or is a digit or 'I'
\* or 'a'; and the text is non-empty only if a token passed the threshold.
C20_TokenSurvivesIff ==
    (extracted # <<>> /\ extracted[1].error = None) =>
        /\ split_ws(extracted[1].text) =
               [k \in 1..Len(SelectSeq(ocr_data, survives)) |->
                    strip(SelectSeq(ocr_data, survives)[k].text)]
        /\ extracted[1].text # <<>> =>
               \E i \in 1..Len(ocr_data) : ocr_data[i].conf >= confidence_threshold

(***************************************************************************)
(* Properties of the transcription confidence (SpecConfidence)             *)
(***************************************************************************)
\* the transcription of audio file k was returned without an error
transcribed(k) == whisper[k].returned # <<>> /\ whisper[k].returned[1].error = None

RECURSIVE sum_of(_)
sum_of(numbers) == IF numbers = <<>> THEN 0 ELSE Head(numbers) + sum_of(Tail(numbers))

\* the mean avg_logprob of the segments of a is higher than that of b (both
\* have segments)
higher_mean_logprob(a, b) ==
    /\ a.segments # <<>>
    /\ b.segments # <<>>
    /\ sum_of(a.segments) * Len(b.segments) > sum_of(b.segments) * Len(a.segments)

\* the tiers of the confidence, in hundredths
confidence_tiers == {95, 85, 75, 60, 40, 20}

\* C21: the confidence of a transcription is one of the tiers, or 0.0 when
\* the model returned no segments, and of two transcriptions the one with the
\* higher mean segment log-probability never has the lower confidence.
C21_ConfidenceMonotoneInLogProb ==
    /\ \A k \in 1..Len(whisper) :
         transcribed(k) =>
            IF whisper[k].result.segments = <<>>
            THEN whisper[k].returned[1].confidence = 0
            ELSE whisper[k].returned[1].confidence \in confidence_tiers
    /\ \A j \in 1..Len(whisper), k \in 1..Len(whisper) :
         (transcribed(j) /\ transcribed(k)
            /\ higher_mean_logprob(whisper[j].result, whisper[k].result)) =>
                whisper[j].returned[1].confidence >= whisper[k].returned[1].confidence

(***************************************************************************)
(* More properties of the transcriber (SpecAudio)                          *)
(***************************************************************************)
\* C22: when the audio extraction fails (non-zero exit of the subprocess, or
\* an extracted file of less than 1 KB), no transcription is attempted and the
\* transcription result has an error, an empty text and the confidence 0.0,
\* so that the record made of it has spoken_phrases '' and
\* transcription_confidence 0.0.
C22_NoTranscriptionAfterFailedExtraction ==
    audio.extraction \in {"failed", "too_small"} =>
        /\ ~audio.transcribed
        /\ audio.pc = "returned"
        /\ audio.result[1].error # None
        /\ audio.result[1].text = <<>>
        /\ audio.result[1].confidence = 0
        /\ LET made == create_video_record(extract_video_id(audio.video_path[1]),
                                           file_name(audio.video_path[1]), video_info,
                                           frame_sequence_result(<<"a">>, 1), audio.result[1])
           IN  /\ made.spoken_phrases = <<>>
               /\ made.transcription_confidence = 0

\* the extraction made a file of less than 1 KB and the call has returned
C22_Witness ==
    /\ audio.extraction = "too_small"
    /\ audio.pc = "returned"
    /\ audio.result[1].error = "Audio extraction failed"

(***************************************************************************)
(* Properties of the progress tracker (SpecTracker)                        *)
(***************************************************************************)
\* the last n elements of a list (all of it when it is shorter)
LastOf(list, n) == SubSeq(list, IF Len(list) > n THEN Len(list) - n + 1 ELSE 1, Len(list))

\* the step writes a snapshot that differs from the file it replaces
SnapshotWritten == progress_file' # progress_file

\* C23 as stated: every snapshot written holds at most 50 errors, the last
\* ones of all the errors recorded in the session and in the sessions it
\* resumed, in recording order.
C23_SnapshotHoldsLastRecorded ==
    [][SnapshotWritten =>
          /\ Len(progress_file'[1].errors) <= MaxErrors
          /\ progress_file'[1].errors = LastOf(session'.recorded, MaxErrors)]_vars

\* C23, amended: every snapshot written holds at most 50 errors, the last
\* ones of the list the tracker holds when it writes: the errors it restored
\* from the snapshot it resumed, followed by the errors recorded since, in
\* recording order.
C23_SnapshotHoldsLastHeld ==
    [][SnapshotWritten =>
          /\ Len(progress_file'[1].errors) <= MaxErrors
          /\ progress_file'[1].errors = LastOf(session'.restored \o session'.recent, MaxErrors)]_vars

\* a resumed session has written a snapshot of 50 errors of which the oldest
\* recorded one has been dropped
C23_Witness ==
    /\ session.starts = 2
    /\ session.restored # <<>>
    /\ session.recent # <<>>
    /\ progress_file # <<>>
    /\ "errors" \in DOMAIN progress_file[1]
    /\ Len(progress_file[1].errors) = MaxErrors
    /\ progress_file[1].errors[1] # session.recorded[1]
    /\ progress_file[1].errors[MaxErrors] = session.recent[Len(session.recent)]

(***************************************************************************)
(* Properties of a run of the pipeline (SpecRun)                           *)
(***************************************************************************)
\* C24: within one run each input file is submitted for processing at most
\* once: the files submitted so far, batch after batch, are files selected by
\* the run and no file is among them twice, so a video whose processing
\* failed is not submitted again in the run.
C24_SubmittedAtMostOnce ==
    /\ \A i \in 1..Len(run.submissions) : run.submissions[i] \in run.selected
    /\ \A i, j \in 1..Len(run.submissions) :
         run.submissions[i] = run.submissions[j] => i = j

\* the second batch of the run is in the pool and the video of the first
\* batch has a row with the status 'failed'
C24_Witness ==
    /\ pc = "pool"
    /\ batch_num = 2
    /\ Len(run.submissions) = 2
    /\ \E k \in 1..Len(csv_rows) :
         /\ csv_rows[k].processing_status = "failed"
         /\ csv_rows[k].filename = file_name(run.submissions[1])

(***************************************************************************)
(* More properties of the runs of the pipeline (Spec)                      *)
(***************************************************************************)
\* the only row of the video of the file has the status 'failed'
failed_before(f) ==
    /\ \E k \in 1..Len(csv_rows) : csv_rows[k].filename = file_name(f)
    /\ \A k \in 1..Len(csv_rows) :
         csv_rows[k].video_id = extract_video_id(f) => csv_rows[k].processing_status = "failed"

C26_CountersWithinTotal ==
    progress # <<>> =>
        progress[1].completed_videos + progress[1].failed_videos <= progress[1].total_videos

(***************************************************************************)
(* More properties of a run of the pipeline (SpecRun)                      *)
(***************************************************************************)
\* the rows the run has appended so far
appended_by_run == SubSeq(csv_rows, run.rows_at_start + 1, Len(csv_rows))

\* C27: a row is appended to the table only when every task of the batch has
\* finished and its result has been collected; while a task of the batch may
\* still be running the run has written no row of a video of that batch, so a
\* kill inside the batch leaves none of its videos in the table.
C27_RowsOnlyAfterBatchFinished ==
    /\ [](pc = "pool" =>
            \A k \in 1..Len(appended_by_run), j \in 1..Len(tasks) :
                appended_by_run[k].filename # file_name(tasks[j].file))
    /\ [][csv_rows' # csv_rows =>
             /\ pc = "save"
             /\ \A j \in 1..Len(tasks) : tasks[j].pc = "collected"]_vars

\* the first row of a batch of two videos has been appended, after both tasks
\* were collected
C27_Witness ==
    /\ pc = "save"
    /\ Len(tasks) = 2
    /\ save_i = 2
    /\ Len(appended_by_run) = 1
    /\ \E j \in 1..2 : appended_by_run[1].filename = file_name(tasks[j].file)

(***************************************************************************)
(* More properties of the progress tracker (SpecTracker)                   *)
(***************************************************************************)
\* completed + failed of a progress
processed_of(p) == p.completed_videos + p.failed_videos

rows_with(statuses) == Cardinality({k \in 1..Len(csv_rows) : csv_rows[k].processing_status \in statuses})

\* the first run over the directory, on an empty output directory, has ended
\* and returned True
fresh_run_ended ==
    /\ ret = "True"
    /\ ~run.after_kill
    /\ run.rows_at_start = 0
    /\ run.selected = videos_dir
    /\ submitted = Cardinality(videos_dir)

\* C29: the progress tracker and the table agree: at the end of a fresh run
\* failed_videos is the number of 'failed' rows the run appended and
\* completed_videos the number of its 'success' and 'partial' rows.
C29_TrackerAgreesWithTable ==
    fresh_run_ended =>
        /\ progress_file[1].failed_videos = rows_with({"failed"})
        /\ progress_file[1].completed_videos = rows_with({"success", "partial"})

(***************************************************************************)
(* start_processing (SpecTracker)                                          *)
(***************************************************************************)
\* the file holds a snapshot that can be read
readable(file) == file # <<>> /\ file[1] # Unreadable

\* a session with the counters at 0 and no error
fresh(p, total_videos) ==
    /\ p.total_videos = total_videos
    /\ p.completed_videos = 0
    /\ p.failed_videos = 0
    /\ p.errors = <<>>

====
